---- MODULE Spec2Model ----
(***************************************************************************)
(* C64U-Screenshot: the capture orchestrator (capture_screenshot), the     *)
(* ROM-bypass orchestrator (read_memory_via_copy), the ROM-overlap         *)
(* analyzer, the VIC-II state decoder, the copy-stub emitter, the sprite   *)
(* overlay and the RSEL/CSEL blanking, as a state machine over the remote  *)
(* machine's registers and memory.                                         *)
(*                                                                         *)
(* One action is one remote request site of the source (or one local       *)
(* step between two requests).  A request has an outcome: "ok" (HTTP 200), *)
(* "fail"/"none" (a non-200 answer: False from pause/resume/write, None    *)
(* from read), "raise" (the requests call raises, e.g. a connection        *)
(* error) and "hang" (no answer ever arrives and the call has no           *)
(* timeout).  write_memory has timeout=5 and catches every exception, so   *)
(* its only outcomes are "ok" and "fail".                                  *)
(*                                                                         *)
(* Memory is modelled at the tracked addresses: both ends of every window  *)
(* the bypass reads or writes, the byte after each window, and the page    *)
(* edges of the copy buffer.                                               *)
(***************************************************************************)
EXTENDS Integers, Sequences, FiniteSets, TLC

\* ------------------------------------------------------------------ bounds
\* How many requests of one capture may end other than "ok".
MaxFaults == 2
\* The longest of the short ranges given to check_rom_overlap.
MaxOverlapLen == 2
\* The most pages the stub is run for.
MaxStubPages == 2
\* The most words on the command line after the program's name.
MaxArgs == 3

\* --------------------------------------------------------- program constants
COPY_BUFFER == 16384
COPY_BUFFER_SIZE == 8192
STUB_ADDR == 832
StubBackupLen == 128
PageSize == 256
MarkerAddr == 2
MarkerValue == 66
ZpAddr == 251
NmiVectorAddr == 792
Cia2TimerAddr == 56580
Cia2IcrAddr == 56589
Cia2CraAddr == 56590
VicRegsAddr == 53248
Cia2PortAddr == 56576
ColorRamAddr == 55296
ScreenLen == 1024
BitmapLen == 8000
CharLen == 2048
SpriteLen == 64

\* ------------------------------------------------------------------ bytes
\* A Python bytes object: its length and its bytes at the offsets the model
\* tracks.  None is the failed read.
None == [len |-> -1, b |-> <<>>]

BytesOf(seq) == [len |-> Len(seq), b |-> [o \in 0..(Len(seq) - 1) |-> seq[o + 1]]]

\* bool(data) of `if marker_backup:` / `if cia2_timer_backup:`
Truthy(data) == data.len > 0

\* ------------------------------------------------------------ pure functions
Shr(x, n) == x \div (2 ^ n)
Bit(x, n) == Shr(x, n) % 2
Lo_Zero(x) == 0
Lo(x) == x % 256
Hi_NoShift(x) == x % 256
Hi(x) == Shr(x, 8) % 256
Max(a, b) == IF a >= b THEN a ELSE b
Min(a, b) == IF a <= b THEN a ELSE b

\* VICIIState.__init__: the frame descriptor from the register block and $DD00.
VICIIState(vic_regs, cia2_data_port) ==
    LET d011 == vic_regs.d011
        d016 == vic_regs.d016
        d018 == vic_regs.d018
        char_mem_offset == (Shr(d018, 1) % 8) * 2048
        screen_mem_offset == (Shr(d018, 4) % 16) * 1024
        bitmap_mem_offset == Bit(d018, 3) * 8192
        vic_bank == (3 - (cia2_data_port % 4)) * 16384
    IN  [yscroll |-> d011 % 8, rsel |-> Bit(d011, 3), den |-> Bit(d011, 4),
         bmm |-> Bit(d011, 5), ecm |-> Bit(d011, 6),
         xscroll |-> d016 % 8, csel |-> Bit(d016, 3), mcm |-> Bit(d016, 4),
         char_mem_offset |-> char_mem_offset,
         screen_mem_offset |-> screen_mem_offset,
         bitmap_mem_offset |-> bitmap_mem_offset,
         vic_bank |-> vic_bank,
         screen_mem_addr |-> vic_bank + screen_mem_offset,
         char_mem_addr |-> vic_bank + char_mem_offset,
         bitmap_mem_addr |-> vic_bank + bitmap_mem_offset]

\* A sprite block of 128 bytes instead of 64.
data_addr_Wide(vic_bank, sprite_pointer) == vic_bank + (sprite_pointer * 128)

\* SpriteInfo.__init__: self.data_addr = vic_bank + (sprite_pointer * 64)
data_addr(vic_bank, sprite_pointer) == vic_bank + (sprite_pointer * 64)

\* The descriptor before the registers are read.
NoVic == VICIIState([d011 |-> 0, d016 |-> 0, d018 |-> 0], 3)

\* VICIIState.get_mode_name: the mode table.
get_mode_name(v) ==
    IF v.ecm = 1 /\ v.bmm = 0 /\ v.mcm = 0 THEN "Extended Background Color Mode"
    ELSE IF v.ecm = 0 /\ v.bmm = 1 /\ v.mcm = 0 THEN "Standard Bitmap Mode (Hi-Res)"
    ELSE IF v.ecm = 0 /\ v.bmm = 1 /\ v.mcm = 1 THEN "Multicolor Bitmap Mode"
    ELSE IF v.ecm = 0 /\ v.bmm = 0 /\ v.mcm = 1 THEN "Multicolor Text Mode"
    ELSE IF v.ecm = 0 /\ v.bmm = 0 /\ v.mcm = 0 THEN "Standard Text Mode"
    ELSE "Invalid/Unused Mode"

\* capture_screenshot's if/elif chain that picks the renderer.
RenderDispatch(v) ==
    IF v.bmm = 1 /\ v.mcm = 1 THEN "render_multicolor_bitmap_mode"
    ELSE IF v.bmm = 1 /\ v.mcm # 1 THEN "render_hires_bitmap_mode"
    ELSE IF v.ecm = 1 THEN "render_ecm_mode"
    ELSE IF v.mcm = 1 THEN "render_multicolor_text_mode"
    ELSE "render_standard_text_mode"

\* check_rom_overlap: the ROM the range overlaps ("none" for Python's None).
check_rom_overlap(address, length) ==
    LET end_address == address + length - 1
    IN  IF address <= 65535 /\ end_address >= 57344 THEN "KERNAL"
        ELSE IF address <= 49151 /\ end_address >= 40960 THEN "BASIC"
        ELSE "none"

\* The test with the second bank where the VIC sees character ROM left out.
uses_char_rom_Bank0Only(v) ==
    /\ v.vic_bank = 0
    /\ v.char_mem_offset >= 4096 /\ v.char_mem_offset < 8192

\* capture_screenshot: VIC fetches character ROM where DMA reads RAM.
uses_char_rom(v) ==
    /\ (v.vic_bank = 0 \/ v.vic_bank = 32768)
    /\ v.char_mem_offset >= 4096 /\ v.char_mem_offset < 8192

\* generate_copy_stub: the 6502 routine, byte by byte.
generate_copy_stub(src_addr, dst_addr, length, jmp_target) ==
    LET num_pages == (length + 255) \div 256
    IN  <<72, 138, 72, 152, 72,
          165, 1, 72,
          169, 52, 133, 1,
          169, Lo(src_addr), 133, 251,
          169, Hi(src_addr), 133, 252,
          169, Lo(dst_addr), 133, 253,
          169, Hi(dst_addr), 133, 254,
          162, num_pages,
          160, 0,
          177, 251,
          145, 253,
          200,
          208, 249,
          230, 252,
          230, 254,
          202,
          208, 240,
          104, 133, 1,
          169, 66, 133, 2,
          104, 168, 104, 170, 104,
          76, Lo(jmp_target), Hi(jmp_target)>>

StubLen == Len(generate_copy_stub(0, 0, 0, 0))

\* ------------------------------------------------------- the remote machine
Tracked ==
    {1, MarkerAddr, ZpAddr, ZpAddr + 1, ZpAddr + 2, ZpAddr + 3, ZpAddr + 4,
     NmiVectorAddr, NmiVectorAddr + 1, NmiVectorAddr + 2,
     STUB_ADDR, STUB_ADDR + StubLen - 1, STUB_ADDR + StubLen,
     STUB_ADDR + StubBackupLen - 1, STUB_ADDR + StubBackupLen,
     COPY_BUFFER, COPY_BUFFER + PageSize - 1, COPY_BUFFER + PageSize,
     COPY_BUFFER + ScreenLen - 1, COPY_BUFFER + ScreenLen,
     COPY_BUFFER + CharLen - 1, COPY_BUFFER + CharLen,
     COPY_BUFFER + BitmapLen - 1, COPY_BUFFER + BitmapLen,
     COPY_BUFFER + COPY_BUFFER_SIZE - 1, COPY_BUFFER + COPY_BUFFER_SIZE,
     Cia2TimerAddr, Cia2TimerAddr + 1, Cia2TimerAddr + 2,
     Cia2IcrAddr, Cia2CraAddr}

\* What the machine holds before the capture: the KERNAL's NMI vector $FE47,
\* a stopped Timer A, and a pattern elsewhere (never 0, never the marker).
InitRam ==
    [a \in Tracked |->
        CASE a = NmiVectorAddr -> 71
          [] a = NmiVectorAddr + 1 -> 254
          [] a = 1 -> 55
          [] a = Cia2IcrAddr -> 0
          [] a = Cia2CraAddr -> 8
          [] OTHER -> (a % 61) + 1]

\* The RAM under BASIC/KERNAL ROM, which only the CPU with ROMs banked out sees.
UnderRom(a) == 128 + (a % 100)

\* GET /v1/machine:readmem with status 200: `length` bytes from `address`.
DmaRead(mem, address, length) ==
    [len |-> length,
     b |-> [o \in {a - address : a \in {t \in Tracked : t >= address /\ t < address + length}}
               |-> mem[o + address]]]

\* POST /v1/machine:writemem with status 200: data lands at address, address+1, ...
DmaWrite(mem, address, data) ==
    [a \in Tracked |->
        IF a >= address /\ a < address + data.len /\ (a - address) \in DOMAIN data.b
        THEN data.b[a - address]
        ELSE mem[a]]

\* What running the stub does to memory: num_pages whole pages go from the RAM
\* at src to dst, $FB-$FE are left as the advanced pointers, $02 holds the marker.
StubEffect(mem, src_addr, dst_addr, length) ==
    LET num_pages == (length + 255) \div 256
        copied == num_pages * PageSize
    IN  [a \in Tracked |->
            IF a >= dst_addr /\ a < dst_addr + copied THEN UnderRom(src_addr + (a - dst_addr))
            ELSE IF a = ZpAddr THEN Lo(src_addr)
            ELSE IF a = ZpAddr + 1 THEN (Hi(src_addr) + num_pages) % 256
            ELSE IF a = ZpAddr + 2 THEN Lo(dst_addr)
            ELSE IF a = ZpAddr + 3 THEN (Hi(dst_addr) + num_pages) % 256
            ELSE IF a = MarkerAddr THEN MarkerValue
            ELSE mem[a]]

\* The NMI reaches the stub when Timer A's NMI is enabled and started and the
\* vector at $0318 points at the stub.
Armed(mem) ==
    /\ mem[Cia2IcrAddr] = 129
    /\ mem[Cia2CraAddr] = 17
    /\ mem[NmiVectorAddr] = Lo(STUB_ADDR)
    /\ mem[NmiVectorAddr + 1] = Hi(STUB_ADDR)


\* ------------------------------------------------------------------ state
VARIABLES
    regs,             \* the machine's registers: $D011, $D016, $D018, $D015, $DD00
    ram,              \* the machine's memory at the tracked addresses
    use_rom_bypass,   \* capture_screenshot's arguments
    include_sprites,
    pc,               \* the statement the program is at
    vic_regs,         \* capture_screenshot's locals
    vic,
    color_mem,
    screen_mem,
    bitmap_mem,
    char_rom,
    renderer,
    sprite_i,
    result,           \* "unset", "True" or "False": what capture_screenshot returns
    exc,              \* an exception is propagating out of capture_screenshot's try
    bp,               \* read_memory_via_copy's arguments and locals
    ramBefore,        \* the memory when read_memory_via_copy was entered
    h,                \* history of the requests issued so far
    m,                \* main's argv, locals and exit code
    cpu,              \* a 6510 executing the copy stub
    fn                \* a call of a pure function: its arguments and result

vars == <<regs, ram, use_rom_bypass, include_sprites, pc, vic_regs, vic, color_mem,
          screen_mem, bitmap_mem, char_rom, renderer, sprite_i, result, exc, bp,
          ramBefore, h, m, cpu, fn>>

captureLocals == <<vic_regs, vic, color_mem, screen_mem, bitmap_mem, char_rom,
                   renderer, sprite_i, result, exc>>
inputs == <<regs, use_rom_bypass, include_sprites>>
others == <<m, cpu, fn>>

\* The register values a machine may hold: text / bitmap / ECM with the usual
\* DEN|RSEL|YSCROLL=3, with and without MCM, three memory set-ups per VIC bank.
D011Set == {27, 59, 91, 123}
D016Set == {200, 216}
D018Set == {20, 24, 136}
DD00Set == {148, 149, 150, 151}
D015Set == {129}
\* With the character generator below, at both ends of and above $1000-$1FFF.
D018ModesSet == D018Set \cup {18, 22}

NoRegs == [d011 |-> 0, d016 |-> 0, d018 |-> 0, d015 |-> 0, dd00 |-> 0]

Sites == {"c_screen", "c_bitmap", "c_char"}

\* read_memory_via_copy's locals before the call.
NoBypass ==
    [src_addr |-> 0, length |-> 0, site |-> "none",
     stub_backup |-> None, buffer_backup |-> None, zp_backup |-> None,
     marker_backup |-> None, nmi_vector_backup |-> None,
     cia2_icr_backup |-> None, cia2_timer_backup |-> None,
     retval |-> None, raised |-> FALSE]

RestoreWrites == {"icr", "timer", "nmi", "zp", "marker", "stub", "buffer"}

\* The part of the history that is about the current read_memory_via_copy call.
NoCallHistory ==
    [bLastPR |-> "none", bWrote |-> FALSE, bResumeIssued |-> FALSE,
     bBackupFailed |-> FALSE, injecting |-> FALSE, restored |-> {},
     markerRead |-> "unread", bufferRead |-> FALSE, stubRan |-> FALSE,
     bFaults |-> 0, restoreLog |-> <<>>, written |-> {}, injectFailed |-> FALSE]

NoHistory ==
    [faults |-> 0, budget |-> 0, lastPR |-> "none", ioSincePR |-> FALSE, rwFailed |-> FALSE,
     readNone |-> FALSE, dataReadNone |-> FALSE, anyRaise |-> FALSE,
     prFailed |-> FALSE, bypassResumeFailed |-> FALSE, spriteNone |-> FALSE,
     bypassCalls |-> 0, window |-> <<"none", 0, 0>>, shortBudget |-> 0,
     shortRead |-> FALSE, wrote |-> FALSE, resumes |-> 0, windows |-> {},
     spriteAddr |-> -1, call |-> NoCallHistory]

\* main is not running; no stub is executing; no pure function is called.
NoMain == [at |-> "none"]
NoCpu == [at |-> "none"]
NoFn == [op |-> "none"]

\* The state after capture_screenshot's arguments are bound, for a machine
\* whose registers are in R, with the history H.
InitHist(R, H) ==
    /\ regs \in R
    /\ ram = InitRam
    /\ use_rom_bypass \in BOOLEAN
    /\ include_sprites \in BOOLEAN
    /\ pc = "c_pause"
    /\ vic_regs = NoRegs
    /\ vic = NoVic
    /\ color_mem = None
    /\ screen_mem = None
    /\ bitmap_mem = None
    /\ char_rom = None
    /\ renderer = "none"
    /\ sprite_i = 0
    /\ result = "unset"
    /\ exc = FALSE
    /\ bp = NoBypass
    /\ ramBefore = InitRam
    /\ h = H
    /\ m = NoMain
    /\ cpu = NoCpu
    /\ fn = NoFn

\* The same when at most F requests end other than "ok".
InitWith(R, F) == InitHist(R, [NoHistory EXCEPT !.budget = F])

\* Faults are explored on text and hi-res bitmap screens.
Init ==
    InitWith([d011 : {27, 59}, d016 : {200}, d018 : D018Set, d015 : D015Set,
              dd00 : DD00Set], MaxFaults)

\* Every mode is explored with one read of a window answered 200 with fewer
\* bytes than asked for.
InitShort ==
    InitHist([d011 : D011Set, d016 : D016Set, d018 : D018Set, d015 : D015Set,
              dd00 : DD00Set], [NoHistory EXCEPT !.shortBudget = 1])

\* Every mode is explored with every request answered.
InitModes ==
    InitWith([d011 : D011Set, d016 : D016Set, d018 : D018ModesSet, d015 : D015Set,
              dd00 : DD00Set], 0)

\* ---------------------------------------------------- Ultimate64API requests
\* How a request can end.  pause, resume and read_memory pass no timeout and
\* catch nothing; write_memory passes timeout=5 and turns every exception into
\* False.
Outcomes(kind) ==
    IF h.budget = 0 THEN {"ok"}
    ELSE IF kind = "write" THEN {"ok", "fail"}
    ELSE IF kind = "read" THEN {"ok", "none", "raise", "hang"}
    ELSE {"ok", "fail", "raise", "hang"}

\* The history after a request of `kind` ended with `out`.
Note(hh, kind, out) ==
    [hh EXCEPT
        !.faults = @ + (IF out = "ok" THEN 0 ELSE 1),
        !.budget = @ - (IF out = "ok" THEN 0 ELSE 1),
        !.lastPR = IF kind \in {"pause", "resume"} THEN kind ELSE @,
        !.ioSincePR = kind \in {"read", "write"},
        !.wrote = @ \/ kind = "write",
        !.resumes = @ + (IF kind = "resume" THEN 1 ELSE 0),
        !.rwFailed = @ \/ (kind \in {"read", "write"} /\ out # "ok"),
        !.readNone = @ \/ (kind = "read" /\ out = "none"),
        !.anyRaise = @ \/ out = "raise",
        !.prFailed = @ \/ (kind \in {"pause", "resume"} /\ out = "fail")]

\* The same for a request issued by read_memory_via_copy.
BNote(hh, kind, out) ==
    [Note(hh, kind, out) EXCEPT
        !.call.bLastPR = IF kind \in {"pause", "resume"} THEN kind ELSE @,
        !.call.bWrote = @ \/ kind = "write",
        !.call.bResumeIssued = @ \/ kind = "resume",
        !.call.bFaults = @ + (IF out = "ok" THEN 0 ELSE 1)]

\* How the read of a window (colour RAM, screen, bitmap, characters, the copied
\* buffer) can end: as any read, or with status 200 and too few bytes.
WindowOutcomes ==
    Outcomes("read") \cup (IF h.shortBudget > 0 THEN {"short"} ELSE {})

\* The number of bytes such a read returns: none or all but one when short.
ReadLens(got, length) == IF got = "short" THEN {0, length - 1} ELSE {length}

\* A short read goes the way of a full one: its content is not None.
Flow(got) == IF got = "short" THEN "ok" ELSE got

\* The history after a window read that ended with `got`.
WindowNote(hh, got) ==
    [hh EXCEPT !.shortBudget = @ - (IF got = "short" THEN 1 ELSE 0),
               !.shortRead = @ \/ got = "short"]

\* The history after a read of picture data or of a backup the bypass cannot
\* do without (stub, buffer, $FB-$FE, NMI vector) or of the copied buffer.
DataRead(hh, out) ==
    [hh EXCEPT !.dataReadNone = @ \/ out = "none"]

\* ------------------------------------------------------- capture_screenshot
\* Where a statement inside capture_screenshot's try goes: on, or to the
\* finally (after `return False`, or with the exception propagating).
TryNext(out, next) ==
    IF out = "hang" THEN "blocked" ELSE IF out = "ok" THEN next ELSE "c_finally"

\* api.pause() with a failed pause treated as an error: return False.
CapturePause_Fatal ==
    /\ pc = "c_pause"
    /\ \E out \in Outcomes("pause") :
        /\ h' = Note(h, "pause", out)
        /\ pc' = IF out = "hang" THEN "blocked"
                 ELSE IF out = "raise" THEN "raised"
                 ELSE IF out = "fail" THEN "returned" ELSE "c_regs"
        /\ result' = IF out = "fail" THEN "False" ELSE result
    /\ UNCHANGED <<inputs, others, ram, vic_regs, vic, color_mem, screen_mem, bitmap_mem,
                   char_rom, renderer, sprite_i, exc, bp, ramBefore>>

\* api.pause() before the try: its result only picks a message.
CapturePause ==
    /\ pc = "c_pause"
    /\ \E out \in Outcomes("pause") :
        /\ h' = Note(h, "pause", out)
        /\ pc' = IF out = "hang" THEN "blocked"
                 ELSE IF out = "raise" THEN "raised" ELSE "c_regs"
    /\ UNCHANGED <<inputs, others, ram, captureLocals, bp, ramBefore>>

\* vic_regs = api.read_memory(0xD000, 0x30)
CaptureReadRegs ==
    /\ pc = "c_regs"
    /\ \E out \in Outcomes("read") :
        /\ h' = DataRead(Note(h, "read", out), out)
        /\ pc' = TryNext(out, "c_cia")
        /\ vic_regs' = IF out = "ok" THEN regs ELSE vic_regs
        /\ result' = IF out = "none" THEN "False" ELSE result
        /\ exc' = (out = "raise")
    /\ UNCHANGED <<inputs, others, ram, vic, color_mem, screen_mem, bitmap_mem, char_rom,
                   renderer, sprite_i, bp, ramBefore>>

\* cia2_data = api.read_memory(0xDD00, 1); vic = VICIIState(vic_regs, cia2_data[0])
CaptureReadCia2 ==
    /\ pc = "c_cia"
    /\ \E out \in Outcomes("read") :
        /\ h' = DataRead(Note(h, "read", out), out)
        /\ pc' = TryNext(out, "c_color")
        /\ vic' = IF out = "ok" THEN VICIIState(vic_regs, regs.dd00) ELSE vic
        /\ result' = IF out = "none" THEN "False" ELSE result
        /\ exc' = (out = "raise")
    /\ UNCHANGED <<inputs, others, ram, vic_regs, color_mem, screen_mem, bitmap_mem, char_rom,
                   renderer, sprite_i, bp, ramBefore>>

\* color_mem = api.read_memory(0xD800, 1000)
CaptureReadColor ==
    /\ pc = "c_color"
    /\ \E got \in WindowOutcomes : \E n \in ReadLens(got, 1000) : LET out == Flow(got) IN
        /\ h' = WindowNote(DataRead(Note(h, "read", out), out), got)
        /\ pc' = TryNext(out, "c_screen")
        /\ color_mem' = IF out = "ok" THEN DmaRead(ram, ColorRamAddr, n) ELSE None
        /\ result' = IF out = "none" THEN "False" ELSE result
        /\ exc' = (out = "raise")
    /\ UNCHANGED <<inputs, others, ram, vic_regs, vic, screen_mem, bitmap_mem, char_rom,
                   renderer, sprite_i, bp, ramBefore>>

\* The window each of the three data reads asks for.
SiteAddr(site) ==
    IF site = "c_screen" THEN vic.screen_mem_addr
    ELSE IF site = "c_bitmap" THEN vic.bitmap_mem_addr
    ELSE vic.char_mem_addr

SiteLen(site) ==
    IF site = "c_screen" THEN ScreenLen
    ELSE IF site = "c_bitmap" THEN BitmapLen
    ELSE CharLen

\* Where capture_screenshot goes once a window is in hand.
SiteNext(site) ==
    IF site = "c_screen" THEN (IF vic.bmm = 1 THEN "c_bitmap" ELSE "c_char")
    ELSE "c_render"

\* The bypass taken on every overlap, whatever use_rom_bypass says.
TakesBypass_IgnoresFlag(site) ==
    check_rom_overlap(SiteAddr(site), SiteLen(site)) # "none"

\* read_memory_smart takes the bypass exactly when the range overlaps a ROM.
TakesBypass(site) ==
    use_rom_bypass /\ check_rom_overlap(SiteAddr(site), SiteLen(site)) # "none"

\* The window lands in the local that its site assigns.
StoreWindow(site, data) ==
    /\ screen_mem' = IF site = "c_screen" THEN data ELSE screen_mem
    /\ bitmap_mem' = IF site = "c_bitmap" THEN data ELSE bitmap_mem
    /\ char_rom' = IF site = "c_char" THEN data ELSE char_rom

\* api.read_memory(addr, len) for the screen, the bitmap or the characters:
\* called directly, or by read_memory_smart when no ROM overlaps.
WindowDirect ==
    /\ pc \in Sites
    /\ ~(pc = "c_char" /\ uses_char_rom(vic))
    /\ ~TakesBypass(pc)
    /\ \E got \in WindowOutcomes : \E n \in ReadLens(got, SiteLen(pc)) :
       LET out == Flow(got) IN
        /\ h' = [WindowNote(DataRead(Note(h, "read", out), out), got) EXCEPT
                    !.window = <<pc, SiteAddr(pc), SiteLen(pc)>>,
                    !.windows = @ \cup {<<SiteAddr(pc), SiteLen(pc)>>}]
        /\ pc' = TryNext(out, SiteNext(pc))
        /\ StoreWindow(pc, IF out = "ok" THEN DmaRead(ram, SiteAddr(pc), n) ELSE None)
        /\ result' = IF out = "none" THEN "False" ELSE result
        /\ exc' = (out = "raise")
    /\ UNCHANGED <<inputs, others, ram, vic_regs, vic, color_mem, renderer, sprite_i, bp,
                   ramBefore>>

\* read_memory_smart -> read_memory_via_copy(api, address, length, vic)
WindowBypassCall ==
    /\ pc \in Sites
    /\ ~(pc = "c_char" /\ uses_char_rom(vic))
    /\ TakesBypass(pc)
    /\ bp' = [NoBypass EXCEPT !.src_addr = SiteAddr(pc), !.length = SiteLen(pc),
                              !.site = pc]
    /\ ramBefore' = ram
    /\ h' = [h EXCEPT !.call = NoCallHistory, !.bypassCalls = @ + 1,
                      !.window = <<pc, SiteAddr(pc), SiteLen(pc)>>,
                    !.windows = @ \cup {<<SiteAddr(pc), SiteLen(pc)>>}]
    /\ pc' = "b_stub_bk"
    /\ UNCHANGED <<inputs, others, ram, captureLocals>>

\* char_rom = get_embedded_charset(): no request at all.
CaptureEmbeddedCharset ==
    /\ pc = "c_char"
    /\ uses_char_rom(vic)
    /\ char_rom' = [len |-> CharLen, b |-> <<>>]
    /\ pc' = "c_render"
    /\ UNCHANGED <<inputs, others, ram, vic_regs, vic, color_mem, screen_mem, bitmap_mem,
                   renderer, sprite_i, result, exc, bp, ramBefore, h>>

\* The highest index + 1 that renderer r reads in each window.  A text renderer
\* reads char_rom[code * 8 + y] for the codes on the screen: up to `chars` bytes.
RenderNeeds(r, chars) ==
    [screen |-> 1000,
     color |-> IF r = "render_hires_bitmap_mode" THEN 0 ELSE 1000,
     bitmap |-> IF r \in {"render_hires_bitmap_mode", "render_multicolor_bitmap_mode"}
                THEN BitmapLen ELSE 0,
     char |-> IF r \in {"render_hires_bitmap_mode", "render_multicolor_bitmap_mode"}
              THEN 0 ELSE chars]

\* Indexing a bytes object past its end raises IndexError.
RenderRaises(r, chars) ==
    LET need == RenderNeeds(r, chars)
        short(data, n) == n > 0 /\ data.len < n
    IN  \/ short(screen_mem, need.screen)
        \/ short(color_mem, need.color)
        \/ short(bitmap_mem, need.bitmap)
        \/ short(char_rom, need.char)

\* The if/elif chain that renders the screen, then, with sprites,
\* sprite_pointers = screen_mem[0x3F8:0x400] and get_sprite_info, which reads
\* sprite_pointers[0..7].  The screen holds code 0, and may hold codes up to
\* 63 (ECM) or 255.
CaptureRender ==
    /\ pc = "c_render"
    /\ renderer' = RenderDispatch(vic)
    /\ sprite_i' = 0
    /\ \E chars \in {8, IF RenderDispatch(vic) = "render_ecm_mode" THEN 512 ELSE CharLen} :
        LET raises == \/ RenderRaises(RenderDispatch(vic), chars)
                      \/ include_sprites /\ screen_mem.len < ScreenLen
        IN  /\ exc' = raises
            /\ pc' = IF raises THEN "c_finally"
                     ELSE IF include_sprites THEN "c_sprites" ELSE "c_post"
    /\ UNCHANGED <<inputs, others, ram, vic_regs, vic, color_mem, screen_mem, bitmap_mem,
                   char_rom, result, bp, ramBefore, h>>

\* The sprite pointer bytes screen_mem[0x3F8 + i] may hold: a block low in the
\* VIC bank and the last block of the bank.
SpritePointers == {13, 255}

\* One turn of `for sprite in sprites`: data = api.read_memory(sprite.data_addr, 64)
\* for an enabled sprite, None for a disabled one.  A None read is kept as data.
CaptureSprite ==
    /\ pc = "c_sprites"
    /\ sprite_i < 8
    /\ IF Bit(vic_regs.d015, sprite_i) = 1
       THEN \E out \in Outcomes("read") : \E sprite_pointer \in SpritePointers :
                /\ h' = [Note(h, "read", out) EXCEPT
                            !.spriteNone = @ \/ out = "none",
                            !.spriteAddr = data_addr(vic.vic_bank, sprite_pointer)]
                /\ pc' = IF out = "hang" THEN "blocked"
                         ELSE IF out = "raise" THEN "c_finally" ELSE "c_sprites"
                /\ exc' = (out = "raise")
       ELSE /\ h' = h
            /\ pc' = pc
            /\ exc' = exc
    /\ sprite_i' = sprite_i + 1
    /\ UNCHANGED <<inputs, others, ram, vic_regs, vic, color_mem, screen_mem, bitmap_mem,
                   char_rom, renderer, result, bp, ramBefore>>

\* img = overlay_sprites(...): sprites whose data is None are skipped.
CaptureOverlay ==
    /\ pc = "c_sprites"
    /\ sprite_i = 8
    /\ pc' = "c_post"
    /\ UNCHANGED <<inputs, others, ram, captureLocals, bp, ramBefore, h>>

\* Blanking, border, upscale, img.save(output_file); return True.
CapturePost ==
    /\ pc = "c_post"
    /\ result' = "True"
    /\ pc' = "c_finally"
    /\ UNCHANGED <<inputs, others, ram, vic_regs, vic, color_mem, screen_mem, bitmap_mem,
                   char_rom, renderer, sprite_i, exc, bp, ramBefore, h>>

\* finally: api.resume(); its result only picks a message.
CaptureFinally ==
    /\ pc = "c_finally"
    /\ \E out \in Outcomes("resume") :
        /\ h' = Note(h, "resume", out)
        /\ pc' = IF out = "hang" THEN "blocked"
                 ELSE IF out = "raise" \/ exc THEN "raised" ELSE "returned"
    /\ UNCHANGED <<inputs, others, ram, captureLocals, bp, ramBefore>>


\* ----------------------------------------------------- read_memory_via_copy
\* The backups whose restore the finally does unconditionally.
NeededBackups == {"stub_backup", "buffer_backup", "zp_backup", "nmi_vector_backup"}

\* A backup read before the try.  A read the code checks returns None from
\* the function when it yields None; an exception leaves the function at once.
\* Nothing has been written yet, so there is no cleanup on these exits.
BackupStep(here, address, length, field, checked, next) ==
    /\ pc = here
    /\ \E out \in Outcomes("read") :
        /\ h' = [BNote(h, "read", out) EXCEPT
                    !.call.bBackupFailed = @ \/ out \in {"none", "raise"},
                    !.dataReadNone = @ \/ (out = "none" /\ field \in NeededBackups)]
        /\ bp' = [bp EXCEPT ![field] = IF out = "ok" THEN DmaRead(ram, address, length)
                                       ELSE None,
                            !.raised = (out = "raise")]
        /\ pc' = IF out = "hang" THEN "blocked"
                 ELSE IF out = "raise" THEN "b_done"
                 ELSE IF out = "none" /\ checked THEN "b_done"
                 ELSE next
    /\ UNCHANGED <<inputs, others, ram, captureLocals, ramBefore>>

\* stub_backup = api.read_memory(STUB_ADDR, 128)
BackupStub ==
    BackupStep("b_stub_bk", STUB_ADDR, StubBackupLen, "stub_backup", TRUE, "b_buf_bk")

\* buffer_backup = api.read_memory(COPY_BUFFER, length)
BackupBuffer ==
    BackupStep("b_buf_bk", COPY_BUFFER, bp.length, "buffer_backup", TRUE, "b_zp_bk")

\* The zero-page backup without its `is None` check.
BackupZp_Unchecked ==
    BackupStep("b_zp_bk", ZpAddr, 4, "zp_backup", FALSE, "b_marker_bk")

\* zp_backup = api.read_memory(0xFB, 4)
BackupZp ==
    BackupStep("b_zp_bk", ZpAddr, 4, "zp_backup", TRUE, "b_marker_bk")

\* marker_backup = api.read_memory(0x02, 1): not checked
BackupMarker ==
    BackupStep("b_marker_bk", MarkerAddr, 1, "marker_backup", FALSE, "b_nmi_bk")

\* nmi_vector_backup = api.read_memory(0x0318, 2)
BackupNmi ==
    BackupStep("b_nmi_bk", NmiVectorAddr, 2, "nmi_vector_backup", TRUE, "b_icr_bk")

\* cia2_icr_backup = api.read_memory(0xDD0D, 1): not checked
BackupIcr ==
    BackupStep("b_icr_bk", Cia2IcrAddr, 1, "cia2_icr_backup", FALSE, "b_timer_bk")

\* cia2_timer_backup = api.read_memory(0xDD04, 3): not checked
BackupTimer ==
    BackupStep("b_timer_bk", Cia2TimerAddr, 3, "cia2_timer_backup", FALSE, "b_w_stub")

\* original_nmi_handler = nmi_vector_backup[0] + (nmi_vector_backup[1] << 8)
original_nmi_handler ==
    bp.nmi_vector_backup.b[0] + bp.nmi_vector_backup.b[1] * 256

\* A write inside the try.  A checked write returns None from the function when
\* it fails, which runs the finally; an unchecked one goes on either way.  The
\* history keeps the writes that succeeded, by the statement that issued them.
TryWrite(here, address, data, checked, next) ==
    /\ pc = here
    /\ \E out \in Outcomes("write") :
        /\ h' = [BNote(h, "write", out) EXCEPT
                    !.call.injecting = TRUE,
                    !.call.written = IF out = "ok" THEN @ \cup {here} ELSE @,
                    !.call.injectFailed = @ \/ (checked /\ out = "fail")]
        /\ ram' = IF out = "ok" THEN DmaWrite(ram, address, data) ELSE ram
        /\ pc' = IF out = "fail" /\ checked THEN "r_pause" ELSE next
    /\ UNCHANGED <<inputs, others, captureLocals, bp, ramBefore>>

\* api.write_memory(STUB_ADDR, copy_code)
InjectStub ==
    TryWrite("b_w_stub", STUB_ADDR,
             BytesOf(generate_copy_stub(bp.src_addr, COPY_BUFFER, bp.length,
                                        original_nmi_handler)),
             TRUE, "b_w_vec")

\* api.write_memory(0x0318, nmi_vector)
InjectVector ==
    TryWrite("b_w_vec", NmiVectorAddr, BytesOf(<<Lo(STUB_ADDR), Hi(STUB_ADDR)>>),
             TRUE, "b_w_clear")

\* api.write_memory(0x02, bytes([0x00]))
ClearMarker ==
    TryWrite("b_w_clear", MarkerAddr, BytesOf(<<0>>), TRUE, "b_ack")

\* api.read_memory(0xDD0D, 1): the result is dropped
AckIcr ==
    /\ pc = "b_ack"
    /\ \E out \in Outcomes("read") :
        /\ h' = BNote(h, "read", out)
        /\ bp' = [bp EXCEPT !.raised = (out = "raise")]
        /\ pc' = IF out = "hang" THEN "blocked"
                 ELSE IF out = "raise" THEN "r_pause" ELSE "b_w_latch"
    /\ UNCHANGED <<inputs, others, ram, captureLocals, ramBefore>>

\* api.write_memory(0xDD04, bytes([0x02, 0x00]))
ArmLatch ==
    TryWrite("b_w_latch", Cia2TimerAddr, BytesOf(<<2, 0>>), FALSE, "b_w_icr")

\* api.write_memory(0xDD0D, bytes([0x81]))
ArmIcr ==
    TryWrite("b_w_icr", Cia2IcrAddr, BytesOf(<<129>>), FALSE, "b_w_start")

\* api.write_memory(0xDD0E, bytes([0x11]))
ArmStart ==
    TryWrite("b_w_start", Cia2CraAddr, BytesOf(<<17>>), FALSE, "b_resume")

\* if not api.resume(): return None; then time.sleep(0.5), during which the
\* machine runs and the NMI, if armed, may take the stub.
BypassResume ==
    /\ pc = "b_resume"
    /\ \E out \in Outcomes("resume") :
        \E ran \in (IF out = "ok" /\ Armed(ram) THEN BOOLEAN ELSE {FALSE}) :
            /\ h' = [BNote(h, "resume", out) EXCEPT
                        !.call.stubRan = ran,
                        !.bypassResumeFailed = @ \/ out = "fail"]
            /\ ram' = IF ran THEN StubEffect(ram, bp.src_addr, COPY_BUFFER, bp.length)
                      ELSE ram
            /\ bp' = [bp EXCEPT !.raised = (out = "raise")]
            /\ pc' = IF out = "hang" THEN "blocked"
                     ELSE IF out = "ok" THEN "b_pause" ELSE "r_pause"
    /\ UNCHANGED <<inputs, others, captureLocals, ramBefore>>

\* The bypass without its re-pause.
BypassPause_Omitted ==
    /\ pc = "b_pause"
    /\ pc' = "b_marker"
    /\ UNCHANGED <<inputs, others, ram, captureLocals, bp, ramBefore, h>>

\* api.pause(): the result is dropped
BypassPause ==
    /\ pc = "b_pause"
    /\ \E out \in Outcomes("pause") :
        /\ h' = BNote(h, "pause", out)
        /\ bp' = [bp EXCEPT !.raised = (out = "raise")]
        /\ pc' = IF out = "hang" THEN "blocked"
                 ELSE IF out = "raise" THEN "r_pause" ELSE "b_marker"
    /\ UNCHANGED <<inputs, others, ram, captureLocals, ramBefore>>

\* marker = api.read_memory(0x02, 1) and the two messages.  With marker None
\* the warning formats the string 'None' with :02X, which raises ValueError.
ReadMarker ==
    /\ pc = "b_marker"
    /\ \E out \in Outcomes("read") :
        /\ h' = [BNote(h, "read", out) EXCEPT
                    !.call.markerRead =
                        IF out = "ok"
                        THEN (IF ram[MarkerAddr] = MarkerValue THEN "match"
                              ELSE "mismatch")
                        ELSE IF out = "none" THEN "none" ELSE @]
        /\ bp' = [bp EXCEPT !.raised = (out \in {"raise", "none"})]
        /\ pc' = IF out = "hang" THEN "blocked"
                 ELSE IF out = "ok" THEN "b_read" ELSE "r_pause"
    /\ UNCHANGED <<inputs, others, ram, captureLocals, ramBefore>>

\* copied_data = api.read_memory(COPY_BUFFER, length); return it, or None
ReadCopied ==
    /\ pc = "b_read"
    /\ \E got \in WindowOutcomes : \E n \in ReadLens(got, bp.length) :
       LET out == Flow(got) IN
        /\ h' = [WindowNote(DataRead(BNote(h, "read", out), out), got) EXCEPT
                    !.call.bufferRead = TRUE]
        /\ bp' = [bp EXCEPT !.retval = IF out = "ok"
                                       THEN DmaRead(ram, COPY_BUFFER, n)
                                       ELSE None,
                            !.raised = (out = "raise")]
        /\ pc' = IF out = "hang" THEN "blocked" ELSE "r_pause"
    /\ UNCHANGED <<inputs, others, ram, captureLocals, ramBefore>>

\* The finally without its api.pause().
RestorePause_Omitted ==
    /\ pc = "r_pause"
    /\ pc' = "r_icr"
    /\ UNCHANGED <<inputs, others, ram, captureLocals, bp, ramBefore, h>>

\* finally: api.pause().  An exception here leaves the finally at once.
RestorePause ==
    /\ pc = "r_pause"
    /\ \E out \in Outcomes("pause") :
        /\ h' = [BNote(h, "pause", out) EXCEPT !.call.restoreLog = Append(@, "pause")]
        /\ bp' = [bp EXCEPT !.raised = @ \/ out = "raise"]
        /\ pc' = IF out = "hang" THEN "blocked"
                 ELSE IF out = "raise" THEN "b_done" ELSE "r_icr"
    /\ UNCHANGED <<inputs, others, ram, captureLocals, ramBefore>>

\* A write of the finally: its result is dropped; `guard` is the `if backup:`
\* in front of it (TRUE where the code has none).
RestoreStep(here, name, address, data, guard, next) ==
    /\ pc = here
    /\ IF guard
       THEN \E out \in Outcomes("write") :
                /\ h' = [BNote(h, "write", out) EXCEPT
                            !.call.restored = @ \cup {name},
                            !.call.restoreLog = Append(@, name)]
                /\ ram' = IF out = "ok" THEN DmaWrite(ram, address, data) ELSE ram
       ELSE /\ h' = h
            /\ ram' = ram
    /\ pc' = next
    /\ UNCHANGED <<inputs, others, captureLocals, bp, ramBefore>>

\* The finally with the stub bytes written back first.
RestoreIcr_StubFirst ==
    RestoreStep("r_icr", "stub", STUB_ADDR, bp.stub_backup, TRUE, "r_timer")

\* api.write_memory(0xDD0D, bytes([0x01]))
RestoreIcr ==
    RestoreStep("r_icr", "icr", Cia2IcrAddr, BytesOf(<<1>>), TRUE, "r_timer")

\* if cia2_timer_backup: api.write_memory(0xDD04, cia2_timer_backup)
RestoreTimer ==
    RestoreStep("r_timer", "timer", Cia2TimerAddr, bp.cia2_timer_backup,
                Truthy(bp.cia2_timer_backup), "r_nmi")

\* api.write_memory(0x0318, nmi_vector_backup)
RestoreNmi ==
    RestoreStep("r_nmi", "nmi", NmiVectorAddr, bp.nmi_vector_backup, TRUE, "r_zp")

\* api.write_memory(0xFB, zp_backup)
RestoreZp ==
    RestoreStep("r_zp", "zp", ZpAddr, bp.zp_backup, TRUE, "r_marker")

\* if marker_backup: api.write_memory(0x02, marker_backup)
RestoreMarker ==
    RestoreStep("r_marker", "marker", MarkerAddr, bp.marker_backup,
                Truthy(bp.marker_backup), "r_stub")

\* api.write_memory(STUB_ADDR, stub_backup)
RestoreStub ==
    RestoreStep("r_stub", "stub", STUB_ADDR, bp.stub_backup, TRUE, "r_buf")

\* api.write_memory(COPY_BUFFER, buffer_backup)
RestoreBuffer ==
    RestoreStep("r_buf", "buffer", COPY_BUFFER, bp.buffer_backup, TRUE, "b_done")

\* read_memory_via_copy has returned or raised: capture_screenshot takes the
\* window, or returns False on None, or lets the exception through.
BypassReturn ==
    /\ pc = "b_done"
    /\ pc' = IF bp.raised \/ bp.retval = None THEN "c_finally" ELSE SiteNext(bp.site)
    /\ exc' = bp.raised
    /\ result' = IF ~bp.raised /\ bp.retval = None THEN "False" ELSE result
    /\ StoreWindow(bp.site, IF bp.raised THEN None ELSE bp.retval)
    /\ UNCHANGED <<inputs, others, ram, vic_regs, vic, color_mem, renderer, sprite_i, bp,
                   ramBefore, h>>

Next ==
    \/ CapturePause \/ CaptureReadRegs \/ CaptureReadCia2 \/ CaptureReadColor
    \/ WindowDirect \/ WindowBypassCall \/ CaptureEmbeddedCharset
    \/ CaptureRender \/ CaptureSprite \/ CaptureOverlay \/ CapturePost
    \/ CaptureFinally
    \/ BackupStub \/ BackupBuffer \/ BackupZp \/ BackupMarker \/ BackupNmi
    \/ BackupIcr \/ BackupTimer
    \/ InjectStub \/ InjectVector \/ ClearMarker \/ AckIcr
    \/ ArmLatch \/ ArmIcr \/ ArmStart
    \/ BypassResume \/ BypassPause \/ ReadMarker \/ ReadCopied
    \/ RestorePause \/ RestoreIcr \/ RestoreTimer \/ RestoreNmi \/ RestoreZp
    \/ RestoreMarker \/ RestoreStub \/ RestoreBuffer
    \/ BypassReturn

Spec == Init /\ [][Next]_vars

SpecModes == InitModes /\ [][Next]_vars

SpecShort == InitShort /\ [][Next]_vars


\* ---------------------------------------------------- calls of pure functions
\* capture_screenshot is not running: its variables rest.
NoCapture ==
    /\ regs = NoRegs
    /\ ram = InitRam
    /\ use_rom_bypass = TRUE
    /\ include_sprites = TRUE
    /\ pc = "none"
    /\ vic_regs = NoRegs
    /\ vic = NoVic
    /\ color_mem = None
    /\ screen_mem = None
    /\ bitmap_mem = None
    /\ char_rom = None
    /\ renderer = "none"
    /\ sprite_i = 0
    /\ result = "unset"
    /\ exc = FALSE
    /\ bp = NoBypass
    /\ ramBefore = InitRam
    /\ h = NoHistory

captureVars == <<regs, ram, use_rom_bypass, include_sprites, pc, vic_regs, vic,
                 color_mem, screen_mem, bitmap_mem, char_rom, renderer, sprite_i,
                 result, exc, bp, ramBefore, h>>

\* The addresses around the two ROM windows, and the lengths a range may have:
\* the short ones and the three window sizes of the capture.
OverlapAddrs ==
    {0, 1024, 32768, 40959, 40960, 40961, 45056, 49151, 49152, 49153,
     53248, 57343, 57344, 57345, 61440, 65535}
OverlapLens == (0..MaxOverlapLen) \cup {ScreenLen, CharLen, BitmapLen, COPY_BUFFER_SIZE}

InitOverlap ==
    /\ NoCapture
    /\ m = NoMain
    /\ cpu = NoCpu
    /\ fn \in [op : {"check_rom_overlap"}, address : OverlapAddrs,
               length : OverlapLens, out : {"unset"}]

\* overlap = check_rom_overlap(address, length)
CallOverlap ==
    /\ fn.op = "check_rom_overlap"
    /\ fn.out = "unset"
    /\ fn' = [fn EXCEPT !.out = check_rom_overlap(fn.address, fn.length)]
    /\ UNCHANGED <<captureVars, m, cpu>>

SpecOverlap == InitOverlap /\ [][CallOverlap]_vars

\* Every value of $D018 with every value of the CIA2 port byte, and every
\* sprite pointer byte in every VIC bank.
InitVic ==
    /\ NoCapture
    /\ m = NoMain
    /\ cpu = NoCpu
    /\ fn \in [op : {"VICIIState"}, d018 : 0..255, cia2_data_port : 0..255,
                done : {FALSE}, out : {NoVic}]
            \cup [op : {"SpriteInfo"}, cia2_data_port : 0..3, sprite_pointer : 0..255,
                   done : {FALSE}, out : {0}]

\* vic = VICIIState(vic_regs, cia2_data[0])
CallVICIIState ==
    /\ fn.op = "VICIIState"
    /\ ~fn.done
    /\ fn' = [fn EXCEPT !.done = TRUE,
                        !.out = VICIIState([d011 |-> 27, d016 |-> 200, d018 |-> fn.d018],
                                           fn.cia2_data_port)]
    /\ UNCHANGED <<captureVars, m, cpu>>

\* SpriteInfo(i, vic_regs, sprite_pointers[i], vic_bank) for the descriptor's bank
CallSpriteInfo ==
    /\ fn.op = "SpriteInfo"
    /\ ~fn.done
    /\ fn' = [fn EXCEPT !.done = TRUE,
                        !.out = data_addr(VICIIState(NoRegs, fn.cia2_data_port).vic_bank,
                                          fn.sprite_pointer)]
    /\ UNCHANGED <<captureVars, m, cpu>>

SpecVic == InitVic /\ [][CallVICIIState \/ CallSpriteInfo]_vars


\* ------------------------------------------------- the stub on the 6510 CPU
\* Lengths that end just inside and at the end of each page, up to MaxStubPages.
StubLens == UNION {{PageSize * (k - 1) + 1, PageSize * k} : k \in 1..MaxStubPages}

\* The memory the CPU starts from: the stub at STUB_ADDR, the processor port
\* at $01, RAM elsewhere.
CpuRam(c, a) ==
    IF a >= STUB_ADDR /\ a < STUB_ADDR + StubLen
    THEN generate_copy_stub(c.src_addr, c.dst_addr, c.length, c.jmp_target)[a - STUB_ADDR + 1]
    ELSE IF a = 1 THEN c.entry.p01
    ELSE UnderRom(a)

\* The byte of BASIC, KERNAL, character ROM or I/O that hides the RAM at a.
RomByte(a) == a % 100

\* The RAM byte at a: as written since entry, or as it was.
Peek(c, a) == IF a \in DOMAIN c.wr THEN c.wr[a] ELSE CpuRam(c, a)

\* What the CPU reads at a: $01 bits 0-1 (LORAM, HIRAM) map the ROMs and I/O in.
CpuRead(c, a) ==
    LET port == Peek(c, 1)
        hiram == Bit(port, 1) = 1
        loram == Bit(port, 0) = 1
    IN  IF a >= 57344 /\ hiram THEN RomByte(a)
        ELSE IF a >= 40960 /\ a < 49152 /\ hiram /\ loram THEN RomByte(a)
        ELSE IF a >= 53248 /\ a < 57344 /\ (hiram \/ loram) THEN RomByte(a)
        ELSE Peek(c, a)

\* Memory after the CPU stores v at a.
Poke(c, a, v) == [x \in DOMAIN c.wr \cup {a} |-> IF x = a THEN v ELSE c.wr[x]]

\* The effective address of (zp),Y.
IndY(c, zp) == (CpuRead(c, zp) + 256 * CpuRead(c, (zp + 1) % 256) + c.Y) % 65536

\* The state the CPU enters the stub in.
CpuInputs ==
    [at : {"run"}, src_addr : {57344, 41160}, dst_addr : {COPY_BUFFER, COPY_BUFFER + 240},
     length : StubLens, jmp_target : {65095, 59953},
     entry : {[A |-> 17, X |-> 34, Y |-> 51, SP |-> 255, p01 |-> 55]},
     A : {17}, X : {34}, Y : {51}, SP : {255}, Z : {FALSE}, PC : {STUB_ADDR},
     wr : {<<>>}, copies : {0}, ev : {<<>>}, target : {0}]

InitCpu ==
    /\ NoCapture
    /\ m = NoMain
    /\ fn = NoFn
    /\ cpu \in CpuInputs

\* One instruction of the stub, as the 6510 executes it.
CpuStep ==
    /\ cpu.at = "run"
    /\ LET op == CpuRead(cpu, cpu.PC)
           arg == CpuRead(cpu, (cpu.PC + 1) % 65536)
           arg2 == CpuRead(cpu, (cpu.PC + 2) % 65536)
           ld(reg, v, n) == [cpu EXCEPT ![reg] = v, !.Z = (v = 0), !.PC = @ + n]
           st(a, v, n) ==
               [cpu EXCEPT !.wr = Poke(cpu, a, v), !.PC = @ + n,
                           !.ev = IF a \in {1, MarkerAddr}
                                  THEN Append(@, <<a, v, cpu.copies>>) ELSE @]
       IN  cpu' =
             CASE op = 72  -> [st(256 + cpu.SP, cpu.A, 1) EXCEPT !.SP = (@ + 255) % 256]
               [] op = 104 -> [ld("A", CpuRead(cpu, 256 + ((cpu.SP + 1) % 256)), 1)
                                  EXCEPT !.SP = (@ + 1) % 256]
               [] op = 138 -> ld("A", cpu.X, 1)
               [] op = 152 -> ld("A", cpu.Y, 1)
               [] op = 168 -> ld("Y", cpu.A, 1)
               [] op = 170 -> ld("X", cpu.A, 1)
               [] op = 165 -> ld("A", CpuRead(cpu, arg), 2)
               [] op = 169 -> ld("A", arg, 2)
               [] op = 162 -> ld("X", arg, 2)
               [] op = 160 -> ld("Y", arg, 2)
               [] op = 133 -> st(arg, cpu.A, 2)
               [] op = 177 -> ld("A", CpuRead(cpu, IndY(cpu, arg)), 2)
               [] op = 145 -> [st(IndY(cpu, arg), cpu.A, 2) EXCEPT !.copies = @ + 1]
               [] op = 200 -> ld("Y", (cpu.Y + 1) % 256, 1)
               [] op = 202 -> ld("X", (cpu.X + 255) % 256, 1)
               [] op = 230 -> [st(arg, (CpuRead(cpu, arg) + 1) % 256, 2)
                                  EXCEPT !.Z = ((CpuRead(cpu, arg) + 1) % 256 = 0)]
               [] op = 208 -> [cpu EXCEPT !.PC = IF cpu.Z THEN @ + 2
                                                 ELSE @ + 2 + arg - (IF arg >= 128 THEN 256 ELSE 0)]
               [] op = 76  -> [cpu EXCEPT !.at = "jmp", !.target = arg + 256 * arg2]
               [] OTHER    -> [cpu EXCEPT !.at = "crash"]
    /\ UNCHANGED <<captureVars, m, fn>>

SpecCpu == InitCpu /\ [][CpuStep]_vars


\* ----------------------------------------------------------------- main
\* Python strings are sequences of characters.
S_help == <<"-", "-", "h", "e", "l", "p">>
S_h == <<"-", "h">>
S_no_border == <<"-", "-", "n", "o", "-", "b", "o", "r", "d", "e", "r">>
S_nosprites == <<"-", "-", "n", "o", "s", "p", "r", "i", "t", "e", "s">>
S_no_rom_bypass == <<"-", "-", "n", "o", "-", "r", "o", "m", "-", "b", "y", "p", "a", "s", "s">>
S_upscale == <<"-", "-", "u", "p", "s", "c", "a", "l", "e", "=">>
S_password == <<"-", "-", "p", "a", "s", "s", "w", "o", "r", "d", "=">>
S_dashes == <<"-", "-">>
S_default == <<"s", "c", "r", "e", "e", "n", "s", "h", "o", "t", ".", "p", "n", "g">>
valid_extensions ==
    {<<".", "p", "n", "g">>, <<".", "j", "p", "g">>, <<".", "j", "p", "e", "g">>, <<".", "b", "m", "p">>, <<".", "g", "i", "f">>, <<".", "t", "i", "f", "f">>}

\* What the command line may hold after the address.
ArgIp == <<"1", "0", ".", "0", ".", "0", ".", "6", "4">>
ArgWords ==
    {S_help, S_h, S_no_border, S_nosprites, S_no_rom_bypass,
     <<"-", "-", "u", "p", "s", "c", "a", "l", "e", "=", "2">>, <<"-", "-", "u", "p", "s", "c", "a", "l", "e", "=", "x">>,
     <<"-", "-", "p", "a", "s", "s", "w", "o", "r", "d", "=", "p", "w">>, <<"-", "-", "s", "p", "r", "i", "t", "e", "s">>,
     <<"a", ".", "P", "N", "G">>, <<"a", ".", "t", "x", "t">>, <<"a">>}

\* str.startswith
StartsWith(str, prefix) ==
    Len(str) >= Len(prefix) /\ SubSeq(str, 1, Len(prefix)) = prefix

\* str.lower, on the ASCII letters
Upper == <<"A", "B", "C", "D", "E", "F", "G", "H", "I", "J", "K", "L", "M", "N", "O", "P", "Q", "R", "S", "T", "U", "V", "W", "X", "Y", "Z">>
LowerLetters == <<"a", "b", "c", "d", "e", "f", "g", "h", "i", "j", "k", "l", "m", "n", "o", "p", "q", "r", "s", "t", "u", "v", "w", "x", "y", "z">>
LowerChar(ch) ==
    IF \E k \in 1..Len(Upper) : Upper[k] = ch
    THEN LowerLetters[CHOOSE k \in 1..Len(Upper) : Upper[k] = ch]
    ELSE ch
Lower(str) == [k \in 1..Len(str) |-> LowerChar(str[k])]

\* str.rfind('.'), 1-based; 0 when there is no dot
RFindDot(str) ==
    IF \E k \in 1..Len(str) : str[k] = "."
    THEN CHOOSE k \in 1..Len(str) : str[k] = "." /\ \A j \in (k + 1)..Len(str) : str[j] # "."
    ELSE 0

\* ext = output_file[output_file.rfind('.'):].lower() if '.' in output_file else ''
ExtOf(output_file) ==
    IF RFindDot(output_file) = 0 THEN <<>>
    ELSE Lower(SubSeq(output_file, RFindDot(output_file), Len(output_file)))

\* int(text) succeeds on a run of decimal digits.
Digits == <<"0", "1", "2", "3", "4", "5", "6", "7", "8", "9">>
IsInt(text) ==
    Len(text) > 0 /\ \A k \in 1..Len(text) : \E d \in 1..Len(Digits) : Digits[d] = text[k]
DigitVal(ch) == (CHOOSE d \in 1..Len(Digits) : Digits[d] = ch) - 1
RECURSIVE IntOf(_)
IntOf(text) ==
    IF Len(text) = 0 THEN 0
    ELSE IntOf(SubSeq(text, 1, Len(text) - 1)) * 10 + DigitVal(text[Len(text)])

\* sys.argv[1:] of up to MaxArgs words: the address or a help flag, then words.
ArgvSet ==
    {<<>>} \cup UNION {{a \in [1..n -> ArgWords \cup {ArgIp}] : a[1] \in {ArgIp, S_help, S_h}} :
                          n \in 1..MaxArgs}

\* The machines main is run against: a text screen in bank 0 and a bitmap
\* under the KERNAL in bank 3.
MainRegs ==
    {[d011 |-> 27, d016 |-> 200, d018 |-> 20, d015 |-> 129, dd00 |-> 151],
     [d011 |-> 59, d016 |-> 200, d018 |-> 136, d015 |-> 129, dd00 |-> 148]}

InitMain ==
    /\ regs \in MainRegs
    /\ ram = InitRam
    /\ use_rom_bypass = TRUE
    /\ include_sprites = TRUE
    /\ pc = "none"
    /\ vic_regs = NoRegs
    /\ vic = NoVic
    /\ color_mem = None
    /\ screen_mem = None
    /\ bitmap_mem = None
    /\ char_rom = None
    /\ renderer = "none"
    /\ sprite_i = 0
    /\ result = "unset"
    /\ exc = FALSE
    /\ bp = NoBypass
    /\ ramBefore = InitRam
    /\ h = [NoHistory EXCEPT !.budget = 1]
    /\ cpu = NoCpu
    /\ fn = NoFn
    /\ m \in {[at |-> "m_start", argv |-> a, i |-> 2, output_file |-> S_default,
                add_border_flag |-> TRUE, password |-> <<>>, upscale |-> 1,
                exit |-> -1] : a \in ArgvSet}

mainIdle == <<regs, ram, vic_regs, vic, color_mem, screen_mem, bitmap_mem, char_rom,
              renderer, sprite_i, result, exc, bp, ramBefore, h, cpu, fn>>

\* if len(sys.argv) < 2 or "--help" in sys.argv or "-h" in sys.argv: ... sys.exit
MainStart ==
    /\ m.at = "m_start"
    /\ LET help == \E k \in 1..Len(m.argv) : m.argv[k] \in {S_help, S_h}
       IN  m' = IF Len(m.argv) < 1 \/ help
                THEN [m EXCEPT !.at = "exit", !.exit = IF help THEN 0 ELSE 1]
                ELSE [m EXCEPT !.at = "m_args"]
    /\ UNCHANGED <<mainIdle, pc, use_rom_bypass, include_sprites>>

\* One turn of `for arg in sys.argv[2:]`.
MainArg ==
    /\ m.at = "m_args"
    /\ m.i <= Len(m.argv)
    /\ LET arg == m.argv[m.i]
           value == SubSeq(arg, Len(S_upscale) + 1, Len(arg))
           on == [m EXCEPT !.i = @ + 1]
       IN  /\ m' = IF arg = S_no_border THEN [on EXCEPT !.add_border_flag = FALSE]
                   ELSE IF arg \in {S_nosprites, S_no_rom_bypass} THEN on
                   ELSE IF StartsWith(arg, S_upscale)
                        THEN IF IsInt(value)
                             THEN [on EXCEPT !.upscale = Max(IntOf(value), 1)]
                             ELSE [m EXCEPT !.at = "exit", !.exit = 1]
                   ELSE IF StartsWith(arg, S_password)
                        THEN [on EXCEPT !.password = SubSeq(arg, Len(S_password) + 1, Len(arg))]
                   ELSE IF StartsWith(arg, S_dashes)
                        THEN [m EXCEPT !.at = "exit", !.exit = 1]
                   ELSE [on EXCEPT !.output_file = arg]
           /\ include_sprites' = IF arg = S_nosprites THEN FALSE ELSE include_sprites
           /\ use_rom_bypass' = IF arg = S_no_rom_bypass THEN FALSE ELSE use_rom_bypass
    /\ UNCHANGED <<mainIdle, pc>>

\* The extension check with every name accepted.
MainCheckExt_Skipped ==
    /\ m.at = "m_args"
    /\ m.i > Len(m.argv)
    /\ m' = [m EXCEPT !.at = "m_wait"]
    /\ pc' = "c_pause"
    /\ UNCHANGED <<mainIdle, use_rom_bypass, include_sprites>>

\* After the loop: the extension check, then the call of capture_screenshot.
MainCheckExt ==
    /\ m.at = "m_args"
    /\ m.i > Len(m.argv)
    /\ IF ExtOf(m.output_file) \notin valid_extensions
       THEN /\ m' = [m EXCEPT !.at = "exit", !.exit = 1]
            /\ pc' = pc
       ELSE /\ m' = [m EXCEPT !.at = "m_wait"]
            /\ pc' = "c_pause"
    /\ UNCHANGED <<mainIdle, use_rom_bypass, include_sprites>>

\* sys.exit(0 if success else 1); an exception out of main ends Python with 1.
MainExit ==
    /\ m.at = "m_wait"
    /\ pc \in {"returned", "raised"}
    /\ m' = [m EXCEPT !.at = "exit",
                      !.exit = IF pc = "returned" /\ result = "True" THEN 0 ELSE 1]
    /\ UNCHANGED <<mainIdle, pc, use_rom_bypass, include_sprites>>

NextMain == MainStart \/ MainArg \/ MainCheckExt \/ MainExit \/ Next

SpecMain == InitMain /\ [][NextMain]_vars


\* ------------------------------------------------------------------ images
\* A PIL image: its size and the colour of the pixels the model tracks, as
\* indices into C64_PALETTE (whose sixteen entries differ from one another).
\* The tracked pixels lie at and next to the edges of the 8-pixel strips, at
\* the corners of the frame and around the places the sprites are put.
ImgWidth == 320
ImgHeight == 200
PixelXs == {0, 5, 7, 8, 11, 12, 20, 27, 34, 41, 47, 48, 100, 310, 311, 312, 315, 319}
PixelYs == {0, 4, 7, 8, 10, 11, 17, 30, 31, 37, 52, 100, 190, 191, 192, 196, 199}
Pixels == PixelXs \X PixelYs

\* The frame a renderer hands on: 320 x 200, in two colours.
ScreenImg ==
    [width |-> ImgWidth, height |-> ImgHeight,
     px |-> [p \in Pixels |-> 1 + ((p[1] + p[2]) % 2)]]

\* The rectangle with its lower-right corner left out.
Rectangle_Exclusive(img, x0, y0, x1, y1, fill) ==
    [img EXCEPT !.px = [p \in DOMAIN img.px |->
        IF p[1] >= x0 /\ p[1] < x1 /\ p[2] >= y0 /\ p[2] < y1 THEN fill ELSE img.px[p]]]

\* ImageDraw.rectangle([x0, y0, x1, y1], fill=...): both corners are inside.
Rectangle(img, x0, y0, x1, y1, fill) ==
    [img EXCEPT !.px = [p \in DOMAIN img.px |->
        IF p[1] >= x0 /\ p[1] <= x1 /\ p[2] >= y0 /\ p[2] <= y1 THEN fill ELSE img.px[p]]]

\* apply_rsel_csel_blanking(img, vic)
apply_rsel_csel_blanking(img, v) ==
    IF v.rsel = 1 /\ v.csel = 1 THEN img
    ELSE LET border == v.border_color
             width == img.width
             height == img.height
             rows == IF v.rsel = 0
                     THEN IF v.yscroll >= 4
                          THEN Rectangle(img, 0, height - 8, width - 1, height - 1, border)
                          ELSE Rectangle(img, 0, 0, width - 1, 7, border)
                     ELSE img
         IN  IF v.csel = 0
             THEN IF v.xscroll >= 4
                  THEN Rectangle(rows, width - 8, 0, width - 1, height - 1, border)
                  ELSE Rectangle(rows, 0, 0, 7, height - 1, border)
             ELSE rows

\* The descriptor of a machine with $D011, $D016 and $D020 as given:
\* self.border_color = vic_regs[0x20] & 0x0F.
BlankVic(d011, d016, d020) ==
    VICIIState([d011 |-> d011, d016 |-> d016, d018 |-> 20], 3)
        @@ [border_color |-> d020 % 16]

\* Every RSEL/YSCROLL with every CSEL/XSCROLL, on a text screen, with a black
\* and a light blue border.
InitBlank ==
    /\ NoCapture
    /\ m = NoMain
    /\ cpu = NoCpu
    /\ fn \in [op : {"apply_rsel_csel_blanking"}, d011 : 16..31, d016 : 192..207,
               d020 : {240, 254}, done : {FALSE}, out : {ScreenImg}]

\* img = apply_rsel_csel_blanking(img, vic)
CallBlanking ==
    /\ fn.op = "apply_rsel_csel_blanking"
    /\ ~fn.done
    /\ fn' = [fn EXCEPT !.done = TRUE,
                        !.out = apply_rsel_csel_blanking(ScreenImg,
                                    BlankVic(fn.d011, fn.d016, fn.d020))]
    /\ UNCHANGED <<captureVars, m, cpu>>

SpecBlank == InitBlank /\ [][CallBlanking]_vars


\* ----------------------------------------------------------------- sprites
\* A pixel of a sprite image that was never set: alpha 0.
Transparent == -1

\* vic.sprite_multicolor0 and vic.sprite_multicolor1, as the registers hold them.
sprite_multicolor0 == 11
sprite_multicolor1 == 12

\* A SpriteInfo with the fields overlay_sprites and render_sprite look at; its
\* colour register holds 3 + num.
SpriteInfo(num, enabled, priority, multicolor, expand, x, y) ==
    [num |-> num, x |-> x, y |-> y, enabled |-> enabled, priority |-> priority,
     multicolor |-> multicolor, x_expand |-> expand, y_expand |-> expand,
     color |-> 3 + num]

\* n bytes of sprite data in which every row holds the three bytes of `row`.
SpriteBytes(n, row) == [len |-> n, b |-> [o \in 0..(n - 1) |-> row[(o % 3) + 1]]]

\* render_sprite: the size of the sprite's image.
SpriteWidth(sprite) == 24 * (IF sprite.x_expand = 1 THEN 2 ELSE 1)
SpriteHeight(sprite) == 21 * (IF sprite.y_expand = 1 THEN 2 ELSE 1)

\* render_sprite: the pixel (px, py) of the sprite's image.  The code walks
\* the rows, the columns and the expansion offsets and sets each pixel once;
\* this is the row, column and bits that set (px, py).  A row whose three
\* bytes are not all in the data is passed over.
render_sprite(sprite, sprite_data, px, py) ==
    LET xs == IF sprite.x_expand = 1 THEN 2 ELSE 1
        ys == IF sprite.y_expand = 1 THEN 2 ELSE 1
        row == py \div ys
    IN  IF row * 3 + 3 > sprite_data.len THEN Transparent
        ELSE LET bits == sprite_data.b[row * 3] * 65536
                         + sprite_data.b[row * 3 + 1] * 256
                         + sprite_data.b[row * 3 + 2]
             IN  IF sprite.multicolor = 1
                 THEN LET col == px \div (2 * xs)
                          bit_pair == Shr(bits, 22 - col * 2) % 4
                      IN  IF bit_pair = 0 THEN Transparent
                          ELSE IF bit_pair = 1 THEN sprite_multicolor0
                          ELSE IF bit_pair = 2 THEN sprite.color
                          ELSE sprite_multicolor1
                 ELSE LET col == px \div xs
                      IN  IF Bit(bits, 23 - col) = 1 THEN sprite.color ELSE Transparent

\* result.paste(sprite_img, (x, y), sprite_img): the pixels of the sprite's
\* image with alpha 255 replace those of the frame; what falls outside the
\* frame is clipped.
Paste(img, sprite, sprite_data, x, y) ==
    [img EXCEPT !.px = [p \in DOMAIN img.px |->
        LET lx == p[1] - x
            ly == p[2] - y
        IN  IF /\ lx >= 0 /\ lx < SpriteWidth(sprite)
               /\ ly >= 0 /\ ly < SpriteHeight(sprite)
               /\ render_sprite(sprite, sprite_data, lx, ly) # Transparent
            THEN render_sprite(sprite, sprite_data, lx, ly)
            ELSE img.px[p]]]

\* The loop from sprite 0 up.
OverlayOrder_Ascending == <<0, 1, 2, 3, 4, 5, 6, 7>>

\* for i in range(7, -1, -1)
OverlayOrder == <<7, 6, 5, 4, 3, 2, 1, 0>>

\* The two sprites that may be on, the others being off.
SpritePairs == {<<0, 1>>, <<0, 7>>, <<3, 4>>, <<6, 7>>}

\* Where the lower-numbered one is put on the frame: inside, over the top left
\* corner, over the bottom right corner, and just off the frame; the other one
\* lies on it or SpriteShift pixels right and down.
SpritePlaces == {<<10, 10>>, <<-12, -10>>, <<308, 190>>, <<-24, -21>>}
SpriteShifts == {0, 6}

\* What capture_screenshot holds for a sprite: off with no data, or on with a
\* failed read, all 64 bytes (every bit set, or a mix of all four bit pairs)
\* or a read that came back with 32 bytes.
SpriteCases ==
    [enabled : {0}, data : {None}, priority : {0, 1}]
    \cup [enabled : {1}, priority : {0, 1},
          data : {None, SpriteBytes(SpriteLen, <<255, 255, 255>>),
                  SpriteBytes(SpriteLen, <<240, 27, 228>>),
                  SpriteBytes(32, <<255, 255, 255>>)}]

\* overlay_sprites(img, sprites, sprite_data_list, vic, front_only=False) as
\* capture_screenshot calls it.
InitOverlay ==
    /\ NoCapture
    /\ m = NoMain
    /\ cpu = NoCpu
    /\ fn \in {[op |-> "overlay_sprites",
                sprites |-> [i \in 0..7 |->
                    IF i = pr[1]
                    THEN SpriteInfo(i, a.enabled, a.priority, mc, 0, at[1] + 24, at[2] + 50)
                    ELSE IF i = pr[2]
                    THEN SpriteInfo(i, b.enabled, b.priority, 0, ex,
                                    at[1] + d + 24, at[2] + d + 50)
                    ELSE SpriteInfo(i, 0, 0, 0, 0, 0, 0)],
                sprite_data_list |-> [i \in 0..7 |->
                    IF i = pr[1] THEN a.data ELSE IF i = pr[2] THEN b.data ELSE None],
                front_only |-> FALSE, k |-> 1, result |-> ScreenImg] :
               pr \in SpritePairs, a \in SpriteCases, b \in SpriteCases,
               mc \in {0, 1}, ex \in {0, 1}, at \in SpritePlaces, d \in SpriteShifts}

\* One turn of overlay_sprites' loop.
OverlayTurn ==
    /\ fn.op = "overlay_sprites"
    /\ fn.k <= Len(OverlayOrder)
    /\ LET i == OverlayOrder[fn.k]
           sprite == fn.sprites[i]
           sprite_data == fn.sprite_data_list[i]
           x == sprite.x - 24
           y == sprite.y - 50
           passed == \/ sprite.enabled = 0
                     \/ fn.front_only /\ sprite.priority = 1
                     \/ sprite_data = None
           inside == /\ x < fn.result.width /\ y < fn.result.height
                     /\ x + SpriteWidth(sprite) > 0 /\ y + SpriteHeight(sprite) > 0
       IN  fn' = [fn EXCEPT !.k = @ + 1,
                            !.result = IF ~passed /\ inside
                                       THEN Paste(@, sprite, sprite_data, x, y)
                                       ELSE @]
    /\ UNCHANGED <<captureVars, m, cpu>>

SpecOverlay == InitOverlay /\ [][OverlayTurn]_vars


\* ------------------------------------------------------------------ claims
Ended == pc \in {"returned", "raised"}

\* C1: every execution of capture_screenshot that ends, however its requests
\* failed, issued a resume after its last read or write, and no pause after it.
C1_ResumeOnEveryExit ==
    Ended => (h.lastPR = "resume" /\ ~h.ioSincePR)

\* The RAM the bypass protocol alters for a window of `length` bytes: the stub
\* area, $FB-$FE, the marker, the NMI vector and the pages the stub copies.
AlteredRam(length) ==
    {a \in Tracked :
        \/ a >= STUB_ADDR /\ a < STUB_ADDR + StubBackupLen
        \/ a >= ZpAddr /\ a < ZpAddr + 4
        \/ a = MarkerAddr
        \/ a >= NmiVectorAddr /\ a < NmiVectorAddr + 2
        \/ a >= COPY_BUFFER
           /\ a < COPY_BUFFER + ((length + PageSize - 1) \div PageSize) * PageSize}

\* C2: when read_memory_via_copy ends with every request answered "ok" and the
\* stub run, every RAM byte the protocol altered holds the value it held when
\* the function was entered.
C2_MemoryNeutral ==
    (pc = "b_done" /\ h.call.bFaults = 0 /\ h.call.stubRan
        /\ bp.length \in {ScreenLen, CharLen, BitmapLen})
    => \A a \in AlteredRam(bp.length) : ram[a] = ramBefore[a]

\* C3: once a backup read of read_memory_via_copy failed, the call issues no
\* write and no resume.
C3_AbortOnBackupFailure ==
    h.call.bBackupFailed => (~h.call.bWrote /\ ~h.call.bResumeIssued)

\* C4: when read_memory_via_copy returns or raises, the last pause/resume
\* request it issued is a pause, or it issued none.
C4_PausedOnExit ==
    pc = "b_done" => h.call.bLastPR \in {"none", "pause"}

\* C4's case: the call resumed the machine and came back.
C4_Witness ==
    pc = "b_done" /\ h.call.bResumeIssued /\ h.call.bLastPR = "pause"

\* C5: once read_memory_via_copy has started injecting, it ends only after
\* every one of the seven restore writes was attempted.
C5_RestoreAlwaysRuns ==
    (pc = "b_done" /\ h.call.injecting) => h.call.restored = RestoreWrites

\* C6: when the marker read after the re-pause yields another byte or no data,
\* read_memory_via_copy goes on to read the buffer.
C6_MissingMarkerStillReads ==
    [][(pc = "b_marker" /\ h'.call.markerRead \in {"mismatch", "none"})
        => pc' = "b_read"]_vars

C9_AlwaysTerminates ==
    Ended \/ ENABLED Next

\* The renderer the mode table of the claim gives each mode name.
TableRenderer(mode) ==
    IF mode = "Standard Text Mode" THEN "render_standard_text_mode"
    ELSE IF mode = "Multicolor Text Mode" THEN "render_multicolor_text_mode"
    ELSE IF mode = "Extended Background Color Mode" THEN "render_ecm_mode"
    ELSE IF mode = "Standard Bitmap Mode (Hi-Res)" THEN "render_hires_bitmap_mode"
    ELSE IF mode = "Multicolor Bitmap Mode" THEN "render_multicolor_bitmap_mode"
    ELSE "background"

\* C10: the renderer capture_screenshot dispatches is the one the mode table
\* gives for (ECM, BMM, MCM); an Invalid combination gets the background frame.
C10_DispatchMatchesModeTable ==
    renderer # "none" => renderer = TableRenderer(get_mode_name(vic))

\* The half-open range [a, a+n) meets the half-open window [lo, hi).
Intersects(a, n, lo, hi) == \E x \in {a, lo} : x >= a /\ x < a + n /\ x >= lo /\ x < hi

C12_CharSource ==
    [][pc = "c_char" =>
        IF vic.vic_bank \in {0, 32768} /\ vic.char_mem_offset \in 4096..8191
        THEN h' = h /\ char_rom'.len = 2048 /\ pc' = "c_render"
        ELSE h' # h /\ h'.window = <<"c_char", vic.char_mem_addr, 2048>>]_vars

\* C12's cases: a text screen rendered from the embedded set with no character
\* read, in the VIC bank at $8000.
C12_Witness ==
    /\ pc = "c_render" /\ vic.bmm = 0 /\ vic.vic_bank = 32768
    /\ char_rom.len = 2048 /\ h.window[1] = "c_screen"

\* The bytes the copy loop is to write: ceil(length/256) whole pages from dst.
CopyWindow == {(cpu.dst_addr + i) % 65536 :
                  i \in 0..(((cpu.length + 255) \div 256) * PageSize - 1)}

\* C13: at the final JMP, A, X, Y, $01 and the stack pointer are as at entry;
\* $34 was written to $01 exactly once, before the first byte was copied; $01
\* was restored and then $42 written to $02, both after the last byte was
\* copied; the JMP goes to the continuation.
C13_StubFrame ==
    cpu.at \in {"jmp", "crash"} =>
        /\ cpu.at = "jmp"
        /\ cpu.A = cpu.entry.A /\ cpu.X = cpu.entry.X /\ cpu.Y = cpu.entry.Y
        /\ cpu.SP = cpu.entry.SP /\ Peek(cpu, 1) = cpu.entry.p01
        /\ cpu.ev = << <<1, 52, 0>>,
                       <<1, cpu.entry.p01, Cardinality(CopyWindow)>>,
                       <<MarkerAddr, MarkerValue, Cardinality(CopyWindow)>> >>
        /\ cpu.target = cpu.jmp_target
        /\ cpu.PC = STUB_ADDR + StubLen - 3

\* C13's case: the stub ran through a two-page copy to its JMP.
C13_Witness ==
    cpu.at = "jmp" /\ cpu.copies = 2 * PageSize /\ cpu.target = 59953

\* C16: the stub writes exactly the ceil(length/256)*256 bytes from dst, each
\* the RAM byte at the same offset from src, and nothing else outside $01, $02,
\* $FB-$FE and the stack.
C16_StubCopies ==
    cpu.at \in {"jmp", "crash"} =>
        /\ cpu.at = "jmp"
        /\ cpu.copies = Cardinality(CopyWindow)
        /\ \A i \in 0..(Cardinality(CopyWindow) - 1) :
              /\ (cpu.dst_addr + i) % 65536 \in DOMAIN cpu.wr
              /\ cpu.wr[(cpu.dst_addr + i) % 65536] = UnderRom((cpu.src_addr + i) % 65536)
        /\ DOMAIN cpu.wr \subseteq
              CopyWindow \cup {1, MarkerAddr} \cup (ZpAddr..(ZpAddr + 3)) \cup (256..511)

\* C16's case: a copy that ends inside its second page, from a source that is
\* not page-aligned to a destination that is not page-aligned.
C16_Witness ==
    /\ cpu.at = "jmp" /\ cpu.length = PageSize + 1
    /\ cpu.src_addr % PageSize # 0 /\ cpu.dst_addr % PageSize # 0
    /\ cpu.wr[cpu.dst_addr + cpu.length - 1] = UnderRom(cpu.src_addr + cpu.length - 1)

\* C14: a capture in which a window read came back short still returns True.
C14_ShortReadStillRenders ==
    (Ended /\ h.shortRead) => (pc = "returned" /\ result = "True")

\* The command line of the state, as the claim reads it.
HelpAsked == \E k \in 1..Len(m.argv) : m.argv[k] \in {S_help, S_h}
UnknownFlag ==
    \E k \in 2..Len(m.argv) :
        /\ StartsWith(m.argv[k], S_dashes)
        /\ m.argv[k] \notin {S_help, S_no_border, S_nosprites, S_no_rom_bypass}
        /\ ~StartsWith(m.argv[k], S_upscale) /\ ~StartsWith(m.argv[k], S_password)
BadExtension ==
    \E k \in 2..Len(m.argv) :
        /\ ~StartsWith(m.argv[k], S_dashes)
        /\ \A j \in (k + 1)..Len(m.argv) : StartsWith(m.argv[j], S_dashes)
        /\ \A e \in valid_extensions :
              Len(m.argv[k]) < Len(e)
              \/ Lower(SubSeq(m.argv[k], Len(m.argv[k]) - Len(e) + 1, Len(m.argv[k]))) # e
ExitCodes ==
    /\ (UnknownFlag \/ BadExtension) => (m.exit = 1 /\ h.lastPR = "none" /\ pc = "none")
    /\ (pc = "returned" /\ result = "False") => m.exit = 1
    /\ (pc = "returned" /\ result = "True") => m.exit = 0

\* C15 as stated: exit code 1 on an unknown -- flag, on a bad extension (no
\* request issued in either case) and on a failed capture, 0 on a successful one.
C15_Original ==
    (m.at = "exit" /\ Len(m.argv) > 0) => ExitCodes

\* C15 as amended: the same when neither --help nor -h is on the command line.
C15_ExitCodes ==
    (m.at = "exit" /\ Len(m.argv) > 0 /\ ~HelpAsked) => ExitCodes

\* C15's case: an unknown flag after a valid output name ended main with 1.
C15_Witness ==
    /\ m.at = "exit" /\ m.exit = 1 /\ UnknownFlag /\ ~BadExtension /\ ~HelpAsked
    /\ Len(m.argv) = 3 /\ h.lastPR = "none"

\* The CIA2 registers written while the NMI timer is armed.
ArmedRegisters == {Cia2TimerAddr, Cia2TimerAddr + 1, Cia2IcrAddr, Cia2CraAddr}

\* C17: after a bypass in which every request succeeded, each CIA2 register
\* written while arming holds the value it held before the call.
C17_TimerStateRestored ==
    (pc = "b_done" /\ h.call.bFaults = 0 /\ h.call.restored = RestoreWrites) =>
        \A a \in ArmedRegisters : ram[a] = ramBefore[a]

\* The order the claim gives for the restore sequence.
RestoreOrder == <<"pause", "icr", "timer", "nmi", "zp", "marker", "stub", "buffer">>
Rank(name) == CHOOSE k \in 1..Len(RestoreOrder) : RestoreOrder[k] = name

\* C18: the operations of the restore sequence are issued in the fixed order
\* pause, Timer-A NMI disable, timer, NMI vector, $FB-$FE, sentinel, stub,
\* buffer; the stub bytes are never written back before the NMI vector, nor
\* the vector before the NMI disable; with nothing failing all eight are issued.
C18_RestoreOrder ==
    LET log == h.call.restoreLog
    IN  /\ \A i, j \in 1..Len(log) : i < j => Rank(log[i]) < Rank(log[j])
        /\ (\E i \in 1..Len(log) : log[i] = "stub") => (\E i \in 1..Len(log) : log[i] = "nmi")
        /\ (\E i \in 1..Len(log) : log[i] = "nmi") => (\E i \in 1..Len(log) : log[i] = "icr")
        /\ (pc = "b_done" /\ h.call.injecting /\ h.call.bFaults = 0) => log = RestoreOrder

\* C18's case: a bypass whose stub ran has gone through the whole restore.
C18_Witness ==
    pc = "b_done" /\ h.call.stubRan /\ h.call.restoreLog = RestoreOrder

\* C19: every window of the descriptor ends at or below $10000, vic_bank is
\* one of the four banks, and every sprite block ends at or below $10000.
C19_WindowsInAddressSpace ==
    /\ (fn.op = "VICIIState" /\ fn.done) =>
          /\ fn.out.vic_bank \in {0, 16384, 32768, 49152}
          /\ fn.out.screen_mem_addr >= 0 /\ fn.out.screen_mem_addr + 1024 <= 65536
          /\ fn.out.char_mem_addr >= 0 /\ fn.out.char_mem_addr + 2048 <= 65536
          /\ fn.out.bitmap_mem_addr >= 0 /\ fn.out.bitmap_mem_addr + 8000 <= 65536
    /\ (fn.op = "SpriteInfo" /\ fn.done) => (fn.out >= 0 /\ fn.out + 64 <= 65536)

\* C19's case: the last sprite block of the last bank, ending at $10000.
C19_Witness ==
    fn.op = "SpriteInfo" /\ fn.done /\ fn.sprite_pointer = 255 /\ fn.out + 64 = 65536

\* C20: whenever the latest request is a memory read or write, the latest
\* pause/resume request sent before it is a pause.
C20_IoWhilePaused ==
    h.ioSincePR => h.lastPR = "pause"

\* C20's case: inside the bypass, after its resume and re-pause, the buffer
\* read has been issued.
C20_Witness ==
    /\ pc = "r_pause" /\ h.call.bResumeIssued /\ h.call.bufferRead
    /\ h.ioSincePR /\ h.lastPR = "pause"

\* The three writes that plant the stub: the routine, the vector, the sentinel.
PlantWrites == {"b_w_stub", "b_w_vec", "b_w_clear"}

\* C23: read_memory_via_copy resumes the machine only after the stub write, the
\* NMI-vector write and the sentinel clear have all succeeded, and writes the
\* vector only after the stub write succeeded; when one of the three fails it
\* issues no resume, and it returns None after the restore ran to its end.
C23_ResumeOnlyAfterPlanting ==
    /\ h.call.bResumeIssued => PlantWrites \subseteq h.call.written
    /\ (pc = "b_w_vec" \/ "b_w_vec" \in h.call.written) => "b_w_stub" \in h.call.written
    /\ h.call.injectFailed => ~h.call.bResumeIssued
    /\ (pc = "b_done" /\ h.call.injectFailed) =>
          /\ ~bp.raised /\ bp.retval = None
          /\ h.call.restoreLog # <<>>
          /\ h.call.restoreLog[Len(h.call.restoreLog)] = "buffer"

\* Some window the capture asked for meets BASIC or KERNAL ROM.
RomWindowRead ==
    \E w \in h.windows : \/ Intersects(w[1], w[2], 40960, 49152)
                         \/ Intersects(w[1], w[2], 57344, 65536)

BypassSteps == {"b_stub_bk", "b_buf_bk", "b_zp_bk", "b_marker_bk", "b_nmi_bk", "b_icr_bk",
                "b_timer_bk", "b_w_stub", "b_w_vec", "b_w_clear", "b_ack", "b_w_latch",
                "b_w_icr", "b_w_start", "b_resume", "b_pause", "b_marker", "b_read",
                "r_pause", "r_icr", "r_timer", "r_nmi", "r_zp", "r_marker", "r_stub",
                "r_buf", "b_done"}

\* C24: with use_rom_bypass off, or as long as no window the capture asked for
\* (screen 1024, bitmap 8000, characters 2048 bytes) meets BASIC or KERNAL ROM,
\* the capture has issued no memory write, and the only resume it issues is
\* the one of its finally; the step that reads a sprite's data issues no write
\* and no resume and never enters read_memory_via_copy.
C24_NoSideEffectsWithoutBypass ==
    [][/\ (~use_rom_bypass \/ ~RomWindowRead') =>
            /\ ~h'.wrote /\ h'.bypassCalls = 0 /\ pc' \notin BypassSteps
            /\ (h'.resumes # h.resumes => pc = "c_finally")
       /\ pc = "c_sprites" =>
            /\ h'.wrote = h.wrote /\ h'.resumes = h.resumes
            /\ h'.bypassCalls = h.bypassCalls /\ pc' \notin BypassSteps]_vars

\* C24's case: with the bypass enabled and the screen and characters clear of
\* the ROMs, a sprite block under the KERNAL was read, and the capture ended
\* with no write and with its one resume.
C24_Witness ==
    /\ pc = "returned" /\ result = "True" /\ use_rom_bypass /\ ~RomWindowRead
    /\ h.spriteAddr >= 57344 /\ ~h.wrote /\ h.resumes = 1

\* The pixels the claim has replaced, for RSEL, YSCROLL, CSEL, XSCROLL as the
\* registers hold them.
InStrip(p, d011, d016) ==
    LET RSEL == Bit(d011, 3)
        YSCROLL == d011 % 8
        CSEL == Bit(d016, 3)
        XSCROLL == d016 % 8
    IN  \/ RSEL = 0 /\ YSCROLL < 4 /\ p[2] \in 0..7
        \/ RSEL = 0 /\ YSCROLL >= 4 /\ p[2] \in (ImgHeight - 8)..(ImgHeight - 1)
        \/ CSEL = 0 /\ XSCROLL < 4 /\ p[1] \in 0..7
        \/ CSEL = 0 /\ XSCROLL >= 4 /\ p[1] \in (ImgWidth - 8)..(ImgWidth - 1)

\* C22: apply_rsel_csel_blanking gives the border colour to exactly the pixels
\* of the top 8 rows (RSEL=0, YSCROLL<4) or bottom 8 rows (RSEL=0, YSCROLL>=4)
\* and of the left 8 columns (CSEL=0, XSCROLL<4) or right 8 columns (CSEL=0,
\* XSCROLL>=4), and leaves every other pixel, and the size, as they were.
C22_BlankingStrips ==
    (fn.op = "apply_rsel_csel_blanking" /\ fn.done) =>
        /\ fn.out.width = ImgWidth /\ fn.out.height = ImgHeight
        /\ \A p \in Pixels :
              fn.out.px[p] = IF InStrip(p, fn.d011, fn.d016) THEN fn.d020 % 16
                             ELSE ScreenImg.px[p]

\* C22's case: 24 rows and 38 columns with YSCROLL=7 and XSCROLL=0: the bottom
\* rows and the left columns are border, the pixels next to them are not.
C22_Witness ==
    /\ fn.op = "apply_rsel_csel_blanking" /\ fn.done
    /\ fn.d011 = 23 /\ fn.d016 = 192 /\ fn.d020 = 254
    /\ fn.out.px[<<319, 192>>] = 14 /\ fn.out.px[<<7, 0>>] = 14
    /\ fn.out.px[<<319, 191>>] # 14 /\ fn.out.px[<<8, 0>>] # 14

\* The colour sprite i shows at the frame's pixel p, Transparent where its
\* image has no opaque pixel there.
SpriteAt(i, p) ==
    LET sprite == fn.sprites[i]
        lx == p[1] - (sprite.x - 24)
        ly == p[2] - (sprite.y - 50)
    IN  IF lx \in 0..(SpriteWidth(sprite) - 1) /\ ly \in 0..(SpriteHeight(sprite) - 1)
        THEN render_sprite(sprite, fn.sprite_data_list[i], lx, ly)
        ELSE Transparent

\* The sprites that are on, have data, and are opaque at p.
Covering(p) ==
    {i \in 0..7 : /\ fn.sprites[i].enabled = 1
                  /\ fn.sprite_data_list[i] # None
                  /\ SpriteAt(i, p) # Transparent}

Lowest(S) == CHOOSE i \in S : \A j \in S : i <= j

\* C21: when overlay_sprites is through, every pixel that an enabled sprite
\* with data covers with an opaque pixel has the colour the lowest-numbered
\* such sprite shows there, and every other pixel is as it was: sprites that
\* are off or have no data add nothing, and no priority flag matters.
C21_LowerSpriteOnTop ==
    (fn.op = "overlay_sprites" /\ fn.k > 8) =>
        \A p \in Pixels :
            fn.result.px[p] = IF Covering(p) = {} THEN ScreenImg.px[p]
                              ELSE SpriteAt(Lowest(Covering(p)), p)

\* C21's case: two sprites are opaque at one pixel, the lower-numbered one
\* flagged as behind the screen, the other as in front, and the pixel shows
\* the lower-numbered one.
C21_Witness ==
    /\ fn.op = "overlay_sprites" /\ fn.k > 8
    /\ \E p \in Pixels : \E i, j \in Covering(p) :
          /\ i < j /\ fn.sprites[i].priority = 1 /\ fn.sprites[j].priority = 0
          /\ SpriteAt(i, p) # SpriteAt(j, p)
          /\ fn.result.px[p] = SpriteAt(i, p)

====
